---- MODULE Spec2Model ----
(***************************************************************************)
(* A model of the parsegen runtime of smol: Position, Span, Token, State   *)
(* and its combinators (src/parsegen/src/state.rs, position.rs), and the   *)
(* ReserveVec of src/parsegen/src/reserve.rs.                              *)
(*                                                                         *)
(* A parser built from the combinators is a term; the closures handed to   *)
(* tokenize, repeat, optional and apply, and the operands of and_then and  *)
(* or_else, are its subterms.  A parse is run by a small-step machine: the *)
(* stack holds the combinator calls in progress, res holds the StateResult *)
(* a call has just returned, cursor and tokens are the fields of State.    *)
(***************************************************************************)
EXTENDS Integers, Sequences, FiniteSets, TLC

\* ---------------------------------------------------------------- bounds

\* Longest input string of the enumerated parses.
MaxLen == 2

\* Most tokenize calls one parse may make before the run is abandoned.
MaxCalls == 8

\* Most slots of a ReserveVec.
MaxSlots == 4

\* ---------------------------------------------------------------- terms

Alphabet == {"a", "b"}

\* All strings over Alphabet of length at most n, as sequences of characters.
Strings(n) == UNION {[1..k -> Alphabet] : k \in 0..n}

NoTerm == <<>>

\* state.match_str(s)
M(s) == [op |-> "match", s |-> s, rule |-> "", kids |-> NoTerm]

\* state.tokenize(rule, |s| body(s))
T(rule, body) == [op |-> "tok", s |-> <<>>, rule |-> rule, kids |-> <<body>>]

\* state.repeat(|s| body(s))
Rep(body) == [op |-> "rep", s |-> <<>>, rule |-> "", kids |-> <<body>>]

\* state.optional(|s| body(s))
Opt(body) == [op |-> "opt", s |-> <<>>, rule |-> "", kids |-> <<body>>]

\* state.apply(body)
App(body) == [op |-> "apply", s |-> <<>>, rule |-> "", kids |-> <<body>>]

\* left(state).and_then(|s| right(s))
Seq2(left, right) == [op |-> "seq", s |-> <<>>, rule |-> "", kids |-> <<left, right>>]

\* left(state).or_else(|s| right(s))
Alt(left, right) == [op |-> "alt", s |-> <<>>, rule |-> "", kids |-> <<left, right>>]

\* The literals of the enumerated parsers.
Literals == {<<>>, <<"a">>, <<"b">>}

Terms0 == {M(s) : s \in Literals}

\* Every parser that is a term of S or one combinator over terms of S.
Step(S) ==
    S \cup {T(r, e) : r \in {"p", "q"}, e \in S}
      \cup {Rep(e) : e \in S}
      \cup {Opt(e) : e \in S}
      \cup {App(e) : e \in S}
      \cup {Seq2(l, r) : l \in S, r \in S}
      \cup {Alt(l, r) : l \in S, r \in S}

Terms1 == Step(Terms0)

Terms2 == Step(Terms1)


\* ---------------------------------------------------------------- position

\* Position { input, idx }
Position(input, idx) == [input |-> input, idx |-> idx]

\* Position::new with the bound check start < input.len().
PositionNewStrict(input, start) ==
    IF start < Len(input)
    THEN [ok |-> TRUE, pos |-> Position(input, start)]
    ELSE [ok |-> FALSE]

\* Position::new(input, start): Ok(position), or Err when start is out of range.
PositionNew(input, start) ==
    IF start <= Len(input)
    THEN [ok |-> TRUE, pos |-> Position(input, start)]
    ELSE [ok |-> FALSE]

\* str::get(lo..hi): Some(slice), or None when the range is not inside the string.
StrGet(input, lo, hi) ==
    IF lo <= hi /\ hi <= Len(input)
    THEN [some |-> TRUE, v |-> SubSeq(input, lo + 1, hi)]
    ELSE [some |-> FALSE]

\* Position::match_str that only checks that the range idx..end is in the input.
PositionMatchStrRangeOnly(pos, s) ==
    LET end == pos.idx + Len(s)
    IN  IF StrGet(pos.input, pos.idx, end).some
        THEN [matched |-> TRUE, pos |-> Position(pos.input, end)]
        ELSE [matched |-> FALSE, pos |-> pos]

\* Position::match_str that goes back to the start of the input on a mismatch.
PositionMatchStrRewinds(pos, s) ==
    LET end == pos.idx + Len(s)
        got == StrGet(pos.input, pos.idx, end)
    IN  IF got = [some |-> TRUE, v |-> s]
        THEN [matched |-> TRUE, pos |-> Position(pos.input, end)]
        ELSE [matched |-> FALSE, pos |-> Position(pos.input, 0)]

\* Position::match_str(&mut self, s): the bool it returns and the position it leaves.
PositionMatchStr(pos, s) ==
    LET end == pos.idx + Len(s)
        got == StrGet(pos.input, pos.idx, end)
    IN  IF got = [some |-> TRUE, v |-> s]
        THEN [matched |-> TRUE, pos |-> Position(pos.input, end)]
        ELSE [matched |-> FALSE, pos |-> pos]

\* ---------------------------------------------------------------- span, token

\* Span { s, start, end }
Span(s, start, end) == [s |-> s, start |-> start, end |-> end]

\* Span::from_positions that takes both bounds from end.
SpanFromPositionsEndOnly(start, end) ==
    IF start.input # end.input THEN [ok |-> FALSE]
    ELSE IF start.idx > end.idx THEN [ok |-> FALSE]
    ELSE [ok |-> TRUE, span |-> Span(start.input, end.idx, end.idx)]

\* Span::from_positions(start, end): Ok(span), or Err.
SpanFromPositions(start, end) ==
    IF start.input # end.input THEN [ok |-> FALSE]
    ELSE IF start.idx > end.idx THEN [ok |-> FALSE]
    ELSE [ok |-> TRUE, span |-> Span(start.input, start.idx, end.idx)]

\* Span::contains(self, other): Ok(bool), or Err when the inputs differ.
SpanContains(self, other) ==
    IF self.s # other.s THEN [ok |-> FALSE]
    ELSE [ok |-> TRUE, v |-> (self.start <= other.start /\ self.end >= other.end)]

\* Token::new(rule, span).  call and parent are history fields, not fields of
\* the program's Token: call numbers the tokenize invocation that made the
\* token, parent is the call number of the tokenize invocation whose body was
\* running then (0 when there was none).  No operation of the model reads them.
Token(rule, span, call, parent) ==
    [rule |-> rule, span |-> span, call |-> call, parent |-> parent]

\* What the program can observe of a token: Token { rule, span }.
Observed(tok) == [rule |-> tok.rule, start |-> tok.span.start, end |-> tok.span.end]

\* ---------------------------------------------------------------- the re-sort

\* The comparator closure handed to sort_by in State::tokenize.
Compare(a, b) ==
    IF SpanContains(a.span, b.span).v \/ a.span.start < b.span.start THEN "Less"
    ELSE IF a.span.start >= b.span.end THEN "Greater"
    ELSE "Equal"

\* Whether the comparator's unwrap of Span::contains panics on some pair of v.
ComparePanics(v) ==
    \E i, j \in 1..Len(v) : ~SpanContains(v[i].span, v[j].span).ok

\* slice::sort_by turns the comparator into is_less.
IsLess(a, b) == Compare(a, b) = "Less"

RECURSIVE ShiftLeft(_, _, _)
\* insert_tail: move tmp, taken from v[j], left while it is less than its left neighbour.
ShiftLeft(v, tmp, j) ==
    IF j > 1 /\ IsLess(tmp, v[j - 1])
    THEN ShiftLeft([v EXCEPT ![j] = v[j - 1]], tmp, j - 1)
    ELSE [v EXCEPT ![j] = tmp]

RECURSIVE InsertionSortShiftLeft(_, _)
\* The stable sort of a slice of at most 20 elements in std since 1.81:
\* insertion_sort_shift_left(v, 1, is_less), here from index i on.
InsertionSortShiftLeft(v, i) ==
    IF i > Len(v) THEN v
    ELSE InsertionSortShiftLeft(ShiftLeft(v, v[i], i), i + 1)

RECURSIVE ShiftRight(_, _, _)
\* insert_head: move tmp, taken from v[h], right while its right neighbour is less.
ShiftRight(v, tmp, h) ==
    IF h < Len(v) /\ IsLess(v[h + 1], tmp)
    THEN ShiftRight([v EXCEPT ![h] = v[h + 1]], tmp, h + 1)
    ELSE [v EXCEPT ![h] = tmp]

RECURSIVE InsertionSortInsertHead(_, _)
\* The stable sort of a slice of at most 20 elements in std before 1.81:
\* for i in (0..len-1).rev() { insert_head(&mut v[i..]) }, here from index i down.
InsertionSortInsertHead(v, i) ==
    IF i < 1 THEN v
    ELSE InsertionSortInsertHead(ShiftRight(v, v[i], i), i - 1)

\* The two implementations of slice::sort_by a build of the crate can link.
SortImpls == {"insert_tail", "insert_head"}

\* added.sort_by(|a, b| ...) under implementation impl.
SortBy(v, impl) ==
    IF impl = "insert_tail" THEN InsertionSortShiftLeft(v, 2)
    ELSE InsertionSortInsertHead(v, Len(v) - 1)

Reverse(v) == [i \in 1..Len(v) |-> v[Len(v) + 1 - i]]

\* An Ok arm of State::tokenize that keeps the re-sorted tokens alone
\* (state.tokens = added in place of state.tokens.append(&mut added)).
TokenizeOkTokensAddedOnly(toks, rule, start, end, tok_len, call, parent, impl) ==
    LET span == SpanFromPositions(start, end)
    IN  IF ~span.ok THEN [panic |-> TRUE]
        ELSE LET pushed == Append(toks, Token(rule, span.span, call, parent))
                 added  == Reverse(SubSeq(pushed, tok_len + 1, Len(pushed)))
             IN  IF ComparePanics(added) THEN [panic |-> TRUE]
                 ELSE [panic |-> FALSE, tokens |-> SortBy(added, impl)]

\* The Ok arm of State::tokenize: the token list after the push and the
\* re-sort of the tokens added since tok_len; panic when an unwrap fails.
TokenizeOkTokens(toks, rule, start, end, tok_len, call, parent, impl) ==
    LET span == SpanFromPositions(start, end)
    IN  IF ~span.ok THEN [panic |-> TRUE]
        ELSE LET pushed == Append(toks, Token(rule, span.span, call, parent))
                 added  == Reverse(SubSeq(pushed, tok_len + 1, Len(pushed)))
             IN  IF ComparePanics(added) THEN [panic |-> TRUE]
                 ELSE [panic |-> FALSE,
                       tokens |-> SubSeq(pushed, 1, tok_len) \o SortBy(added, impl)]


\* ---------------------------------------------------------------- parsers under test

\* The rules of the doc test of State::tokens.
RuleA == T("a", M(<<"a">>))

RuleB == T("b", M(<<"b">>))

RuleAB == T("ab", Seq2(RuleA, RuleB))

RuleABABA == T("ababa", Seq2(Seq2(RuleAB, RuleAB), RuleA))

\* The digit rule of tests/csv.rs: an or_else chain over "0" .. "9".
RuleDigit ==
    T("digit",
      Alt(Alt(Alt(Alt(Alt(Alt(Alt(Alt(Alt(M(<<"0">>), M(<<"1">>)), M(<<"2">>)),
          M(<<"3">>)), M(<<"4">>)), M(<<"5">>)), M(<<"6">>)), M(<<"7">>)),
          M(<<"8">>)), M(<<"9">>)))

\* The field rule of tests/csv.rs.
RuleField == T("field", Rep(RuleDigit))

\* The fields rule of tests/csv.rs.
RuleFields ==
    T("fields", Seq2(App(RuleField), Opt(Rep(Seq2(M(<<",">>), RuleField)))))

\* The record rule of tests/csv.rs.
RuleRecord == T("record", Seq2(App(RuleFields), M(<<"\n">>)))

\* The csv rule of tests/csv.rs.
RuleCsv == T("csv", Rep(RuleRecord))

\* The input of the csv test: "184,754\n33,22222\n".
CsvInput ==
    <<"1", "8", "4", ",", "7", "5", "4", "\n",
      "3", "3", ",", "2", "2", "2", "2", "2", "\n">>

\* The tokenize calls the model lets the parse of CsvInput make: it makes 30.
MaxCsvCalls == 32

\* The parses of the doc test and of the tests: a parser and its input.
Scenarios ==
    { <<RuleABABA, <<"a", "b", "a", "b", "a">> >>,
      <<RuleCsv, CsvInput>>,
      <<RuleDigit, <<"7">> >>,
      <<RuleField, <<"7", "8", "9">> >>,
      <<Rep(RuleDigit), <<"7", "8", "9", "X">> >>,
      <<Opt(Seq2(RuleA, RuleB)), <<"a", "a">> >>,
      <<Seq2(RuleA, M(<<"b", "a">>)), <<"a", "b", "a">> >>,
      <<Seq2(RuleA, M(<<"b", "a">>)), <<"a", "b", "b">> >>,
      <<Seq2(RuleA, M(<<"b", "a">>)), <<"a", "b">> >> }

\* Every parse the model runs: the enumerated parsers over the enumerated
\* inputs, and the scenarios.
Parses ==
    ((Terms2 \cup {T("r", e) : e \in Terms2}) \X Strings(MaxLen)) \cup Scenarios

\* ---------------------------------------------------------------- state

VARIABLES
    prog,       \* the parser being run (the rule function handed to parse)
    sortImpl,   \* the slice::sort_by the build linked
    cursor,     \* State.cursor
    tokens,     \* State.tokens
    stack,      \* the combinator calls in progress, innermost last
    res,        \* "none" while a call runs, else the StateResult just returned
    calls,      \* tokenize invocations so far
    last,       \* history: the step just taken and the state it was taken in
    position,   \* a Position on its own: the Result of Position::new, then the position
    posLog,     \* the arguments of Position::new and of the last match_str, with its bool
    vec,        \* ReserveVec.vec
    handles,    \* the ReservePos values handed out and not yet consumed
    given,      \* history: per slot, in the order of the push and reserve_next calls, the
                \* value given to it and the number of the insert_at_reserved that gave it (0: push)
    out,        \* the Vec that into() returned, once it has
    spanA,      \* a Span on its own
    spanB,      \* another Span
    loc,        \* the Results of spanA.relative_location(spanB) and of the converse call
    ast,        \* an EBNF syntax tree: an Rhs, a Production or a Grammar
    text,       \* what to_string() made of ast
    parsed,     \* what the EBNF parser made of text
    source,     \* the Grammar handed to the generator
    generated,  \* what the generator made of grammar
    derive_input, \* the DeriveInput: its attributes, and what reading the grammar file gives
    loaded      \* what grammar_from_ast returned

parserVars == <<prog, sortImpl, cursor, tokens, stack, res, calls, last>>

positionVars == <<position, posLog>>

reserveVars == <<vec, handles, given, out>>

spanVars == <<spanA, spanB, loc>>

ebnfVars == <<ast, text, parsed>>

genVars == <<source, generated, derive_input, loaded>>

vars == <<parserVars, positionVars, reserveVars, spanVars, ebnfVars, genVars>>

\* The tokenize calls the model lets a parse make.
CallBound == IF prog = RuleCsv THEN MaxCsvCalls ELSE MaxCalls

\* No parse is running.
ParserIdle ==
    /\ prog = M(<<>>)
    /\ sortImpl = "insert_tail"
    /\ cursor = Position(<<>>, 0)
    /\ tokens = <<>>
    /\ stack = <<>>
    /\ res = "none"
    /\ calls = 0
    /\ last = [op |-> "new"]

\* No Position is held on its own.
PositionIdle ==
    /\ position = [ok |-> FALSE]
    /\ posLog = [input |-> <<>>, start |-> 0, s |-> <<>>, matched |-> FALSE, from |-> 0, calls |-> 0]

\* No ReserveVec is held.
ReserveIdle ==
    /\ vec = <<>>
    /\ handles = {}
    /\ given = <<>>
    /\ out = [done |-> FALSE]

\* No Span is held on its own.
SpanIdle ==
    /\ spanA = Span(<<>>, 0, 0)
    /\ spanB = Span(<<>>, 0, 0)
    /\ loc = [ab |-> [done |-> FALSE], ba |-> [done |-> FALSE]]

\* No EBNF text is printed or parsed.
EbnfIdle ==
    /\ ast = [kind |-> "none"]
    /\ text = [done |-> FALSE]
    /\ parsed = [done |-> FALSE]

\* No parser is generated.
GenIdle ==
    /\ source = [rules |-> <<>>]
    /\ generated = [done |-> FALSE]
    /\ derive_input = [attrs |-> <<>>, file |-> [ok |-> FALSE]]
    /\ loaded = [done |-> FALSE]

\* A call of term e about to start.
CallFrame(e) ==
    [e |-> e, phase |-> "call", start |-> Position(<<>>, 0), tok_len |-> 0,
     toks0 |-> <<>>, call |-> 0, parent |-> 0]

RECURSIVE Frames(_)
\* The frames that calling term e pushes: l.and_then(r) and l.or_else(r)
\* evaluate l first and wait for its result.
Frames(e) ==
    IF e.op \in {"seq", "alt"}
    THEN <<[CallFrame(e) EXCEPT !.phase = "wait"]>> \o Frames(e.kids[1])
    ELSE <<CallFrame(e)>>

Top == stack[Len(stack)]

Pop == SubSeq(stack, 1, Len(stack) - 1)

\* The top frame's call is about to run.
Running(op) == stack # <<>> /\ res = "none" /\ Top.phase = "call" /\ Top.e.op = op

\* The call made by the top frame has returned res.
Returned(op) == stack # <<>> /\ res \in {"Ok", "Err"} /\ Top.phase = "wait" /\ Top.e.op = op

\* The tokenize invocation whose body is running: its call number, 0 when none.
EnclosingCall ==
    LET open == {i \in 1..Len(stack) : stack[i].e.op = "tok" /\ stack[i].phase = "wait"}
    IN  IF open = {} THEN 0
        ELSE stack[CHOOSE i \in open : \A j \in open : j <= i].call

\* The top frame waiting with the state at the entry of its call recorded, and
\* the frames of its body pushed.
Enter(body) ==
    Pop \o <<[Top EXCEPT !.phase = "wait", !.start = cursor,
                         !.tok_len = Len(tokens), !.toks0 = tokens]>>
        \o Frames(body)

\* The record of step op, taken now: the State and the result it starts from,
\* the frame of the call it belongs to, and the number of calls in progress.
Did(op) ==
    [op |-> op, cursor |-> cursor, tokens |-> tokens, res |-> res, frame |-> Top,
     depth |-> Len(stack)]

\* State::new(input)
Init ==
    \E parse \in Parses :
        /\ prog = parse[1]
        /\ sortImpl \in SortImpls
        /\ cursor = PositionNew(parse[2], 0).pos
        /\ tokens = <<>>
        /\ stack = Frames(parse[1])
        /\ res = "none"
        /\ calls = 0
        /\ last = [op |-> "new"]
        /\ PositionIdle
        /\ ReserveIdle
        /\ SpanIdle
        /\ EbnfIdle
        /\ GenIdle

\* ---------------------------------------------------------------- combinators

\* State::match_str(s)
MatchStr ==
    /\ Running("match")
    /\ LET r == PositionMatchStr(cursor, Top.e.s)
       IN  /\ cursor' = r.pos
           /\ res' = IF r.matched THEN "Ok" ELSE "Err"
    /\ stack' = Pop
    /\ UNCHANGED <<prog, sortImpl, tokens, calls>>
    /\ UNCHANGED <<positionVars, reserveVars, spanVars, ebnfVars, genVars>>
    /\ last' = Did("match_str")

\* State::tokenize(rule, f) up to its call of f: start and tok_len are taken.
Tokenize ==
    /\ Running("tok")
    /\ calls < CallBound
    /\ calls' = calls + 1
    /\ stack' = Pop \o <<[Top EXCEPT !.phase = "wait", !.start = cursor,
                                     !.tok_len = Len(tokens), !.toks0 = tokens,
                                     !.call = calls + 1, !.parent = EnclosingCall]>>
                    \o Frames(Top.e.kids[1])
    /\ UNCHANGED <<prog, sortImpl, cursor, tokens, res>>
    /\ UNCHANGED <<positionVars, reserveVars, spanVars, ebnfVars, genVars>>
    /\ last' = Did("tokenize")

\* State::tokenize, the Ok(state) arm.
TokenizeOk ==
    /\ Returned("tok")
    /\ res = "Ok"
    /\ LET r == TokenizeOkTokens(tokens, Top.e.rule, Top.start, cursor, Top.tok_len,
                                 Top.call, Top.parent, sortImpl)
       IN  IF r.panic
           THEN /\ res' = "panic"
                /\ stack' = <<>>
                /\ UNCHANGED tokens
           ELSE /\ res' = "Ok"
                /\ stack' = Pop
                /\ tokens' = r.tokens
    /\ UNCHANGED <<prog, sortImpl, cursor, calls>>
    /\ UNCHANGED <<positionVars, reserveVars, spanVars, ebnfVars, genVars>>
    /\ last' = Did("tokenize_ok")

\* State::tokenize, the Err(state) arm.
TokenizeErr ==
    /\ Returned("tok")
    /\ res = "Err"
    /\ stack' = Pop
    /\ UNCHANGED <<prog, sortImpl, cursor, tokens, res, calls>>
    /\ UNCHANGED <<positionVars, reserveVars, spanVars, ebnfVars, genVars>>
    /\ last' = Did("tokenize_err")

\* State::apply(f)
Apply ==
    /\ Running("apply")
    /\ stack' = Pop \o Frames(Top.e.kids[1])
    /\ UNCHANGED <<prog, sortImpl, cursor, tokens, res, calls>>
    /\ UNCHANGED <<positionVars, reserveVars, spanVars, ebnfVars, genVars>>
    /\ last' = Did("apply")

\* State::repeat(f): let mut result = f(self)
Repeat ==
    /\ Running("rep")
    /\ stack' = Enter(Top.e.kids[1])
    /\ UNCHANGED <<prog, sortImpl, cursor, tokens, res, calls>>
    /\ UNCHANGED <<positionVars, reserveVars, spanVars, ebnfVars, genVars>>
    /\ last' = Did("repeat")

\* State::repeat, the loop's arm Ok(state) => result = f(state).  The frame's
\* start and toks0 follow the state of the last success.
RepeatOk ==
    /\ Returned("rep")
    /\ res = "Ok"
    /\ res' = "none"
    /\ stack' = Enter(Top.e.kids[1])
    /\ UNCHANGED <<prog, sortImpl, cursor, tokens, calls>>
    /\ UNCHANGED <<positionVars, reserveVars, spanVars, ebnfVars, genVars>>
    /\ last' = Did("repeat_ok")

\* The result of the loop's arm Err(state) => return Ok(state).
RepeatErrArm(r) == "Ok"

\* State::repeat, the loop's arm Err(state) => return Ok(state).
RepeatErr ==
    /\ Returned("rep")
    /\ res = "Err"
    /\ res' = RepeatErrArm(res)
    /\ stack' = Pop
    /\ UNCHANGED <<prog, sortImpl, cursor, tokens, calls>>
    /\ UNCHANGED <<positionVars, reserveVars, spanVars, ebnfVars, genVars>>
    /\ last' = Did("repeat_err")

\* State::optional(f) up to its call of f.
Optional ==
    /\ Running("opt")
    /\ stack' = Enter(Top.e.kids[1])
    /\ UNCHANGED <<prog, sortImpl, cursor, tokens, res, calls>>
    /\ UNCHANGED <<positionVars, reserveVars, spanVars, ebnfVars, genVars>>
    /\ last' = Did("optional")

\* A match in State::optional that hands the Err of f on.
OptionalArmPropagates(r) == IF r = "Ok" THEN "Ok" ELSE "Err"

\* The match of State::optional: Ok(state) => Ok(state), Err(state) => Ok(state).
OptionalArm(r) == IF r = "Ok" THEN "Ok" ELSE "Ok"

\* State::optional(f) from the return of f.
OptionalReturn ==
    /\ Returned("opt")
    /\ res' = OptionalArm(res)
    /\ stack' = Pop
    /\ UNCHANGED <<prog, sortImpl, cursor, tokens, calls>>
    /\ UNCHANGED <<positionVars, reserveVars, spanVars, ebnfVars, genVars>>
    /\ last' = Did("optional_return")

\* Result::and_then on the result of the left operand.
AndThen ==
    /\ Returned("seq")
    /\ IF res = "Ok"
       THEN /\ res' = "none"
            /\ stack' = Pop \o Frames(Top.e.kids[2])
       ELSE /\ res' = res
            /\ stack' = Pop
    /\ UNCHANGED <<prog, sortImpl, cursor, tokens, calls>>
    /\ UNCHANGED <<positionVars, reserveVars, spanVars, ebnfVars, genVars>>
    /\ last' = Did("and_then")

\* An or_else that runs the right operand whatever the left one returned.
OrElseAlways ==
    /\ Returned("alt")
    /\ res' = "none"
    /\ stack' = Pop \o Frames(Top.e.kids[2])
    /\ UNCHANGED <<prog, sortImpl, cursor, tokens, calls>>
    /\ UNCHANGED <<positionVars, reserveVars, spanVars, ebnfVars, genVars>>
    /\ last' = Did("or_else")

\* Result::or_else on the result of the left operand.
OrElse ==
    /\ Returned("alt")
    /\ IF res = "Err"
       THEN /\ res' = "none"
            /\ stack' = Pop \o Frames(Top.e.kids[2])
       ELSE /\ res' = res
            /\ stack' = Pop
    /\ UNCHANGED <<prog, sortImpl, cursor, tokens, calls>>
    /\ UNCHANGED <<positionVars, reserveVars, spanVars, ebnfVars, genVars>>
    /\ last' = Did("or_else")

Next ==
    \/ MatchStr
    \/ Tokenize
    \/ TokenizeOk
    \/ TokenizeErr
    \/ Apply
    \/ Repeat
    \/ RepeatOk
    \/ RepeatErr
    \/ Optional
    \/ OptionalReturn
    \/ AndThen
    \/ OrElse

Spec == Init /\ [][Next]_vars

\* The parse has returned.
Done == stack = <<>>

TypeOK ==
    /\ res \in {"none", "Ok", "Err", "panic"}
    /\ calls \in 0..CallBound
    /\ cursor.idx \in 0..Len(cursor.input)


\* The parses whose parser is one repeat over an enumerated body.
RepeatParses == {Rep(e) : e \in Terms1} \X Strings(MaxLen)

InitRepeat ==
    /\ \E parse \in RepeatParses :
        /\ prog = parse[1]
        /\ cursor = PositionNew(parse[2], 0).pos
        /\ stack = Frames(parse[1])
    /\ sortImpl \in SortImpls
    /\ tokens = <<>>
    /\ res = "none"
    /\ calls = 0
    /\ last = [op |-> "new"]
    /\ PositionIdle
    /\ ReserveIdle
    /\ SpanIdle
    /\ EbnfIdle
    /\ GenIdle

\* A parse is one synchronous call: it runs on as long as it has a step to take.
FairRepeatSpec == InitRepeat /\ [][Next]_vars /\ WF_vars(Next)

\* The run is abandoned at the model's bound on tokenize calls.
Capped == Running("tok") /\ calls >= CallBound

\* ---------------------------------------------------------------- Position on its own

\* Position::new(input, start) with any start, in and out of range.
InitPosition ==
    /\ \E input \in Strings(MaxLen), start \in 0..(MaxLen + 1) :
        /\ position = PositionNew(input, start)
        /\ posLog = [input |-> input, start |-> start, s |-> <<>>,
                     matched |-> FALSE, from |-> 0, calls |-> 0]
    /\ ParserIdle
    /\ ReserveIdle
    /\ SpanIdle
    /\ EbnfIdle
    /\ GenIdle

\* Position::match_str(s) on the constructed position.
PositionMatch ==
    /\ position.ok
    /\ \E s \in Strings(MaxLen) :
        LET r == PositionMatchStr(position.pos, s)
        IN  /\ position' = [ok |-> TRUE, pos |-> r.pos]
            /\ posLog' = [posLog EXCEPT !.s = s, !.matched = r.matched,
                                        !.from = position.pos.idx, !.calls = 1]
    /\ UNCHANGED <<parserVars, reserveVars, spanVars, ebnfVars, genVars>>

NextPosition == PositionMatch

SpecPosition == InitPosition /\ [][NextPosition]_vars

\* ---------------------------------------------------------------- ReserveVec

\* The values pushed and inserted.
Values == {"c", "d"}

\* VecItem::Value(v)
Value(v) == [tag |-> "Value", v |-> v]

\* VecItem::Marker
Marker == [tag |-> "Marker"]

\* ReserveVec::push(value)
RvPush(vc, value) == Append(vc, Value(value))

\* ReserveVec::reserve_next(): the vector and the ReservePos returned.
RvReserveNext(vc) == [vec |-> Append(vc, Marker), pos |-> Len(vc)]

\* An insert_at_reserved that pushes the value at the end.
RvInsertAtEnd(vc, pos, value) == Append(vc, Value(value))

\* ReserveVec::insert_at_reserved(pos, value)
RvInsertAtReserved(vc, pos, value) == [vc EXCEPT ![pos + 1] = Value(value)]

RECURSIVE FilterMapValues(_)
\* into_iter().filter_map(Value(v) => Some(v), _ => None).collect()
FilterMapValues(vc) ==
    IF vc = <<>> THEN <<>>
    ELSE (IF Head(vc).tag = "Value" THEN <<Head(vc).v>> ELSE <<>>)
         \o FilterMapValues(Tail(vc))

\* impl Into<Vec<T>> for ReserveVec<T>
RvInto(vc) == FilterMapValues(vc)

\* ReserveVec::new()
InitReserve ==
    /\ vec = <<>>
    /\ handles = {}
    /\ given = <<>>
    /\ out = [done |-> FALSE]
    /\ ParserIdle
    /\ PositionIdle
    /\ SpanIdle
    /\ EbnfIdle
    /\ GenIdle

\* The insert_at_reserved calls made so far.
Fills == Cardinality({i \in 1..Len(given) : given[i].filled /\ given[i].fill > 0})

\* ReserveVec::push(value), on the vector held.
Push ==
    /\ ~out.done
    /\ Len(vec) < MaxSlots
    /\ \E v \in Values :
        /\ vec' = RvPush(vec, v)
        /\ given' = Append(given, [filled |-> TRUE, v |-> v, fill |-> 0])
    /\ UNCHANGED <<handles, out>>
    /\ UNCHANGED <<parserVars, positionVars, spanVars, ebnfVars, genVars>>

\* The handle returned is kept with the number of the slot it was reserved for.
ReserveNext ==
    /\ ~out.done
    /\ Len(vec) < MaxSlots
    /\ LET r == RvReserveNext(vec)
       IN  /\ vec' = r.vec
           /\ handles' = handles \cup {[pos |-> r.pos, slot |-> Len(given) + 1]}
    /\ given' = Append(given, [filled |-> FALSE])
    /\ UNCHANGED out
    /\ UNCHANGED <<parserVars, positionVars, spanVars, ebnfVars, genVars>>

\* insert_at_reserved consumes the handle: ReservePos is neither Clone nor Copy.
InsertAtReserved ==
    /\ ~out.done
    /\ \E h \in handles, v \in Values :
        /\ h.pos < Len(vec)
        /\ vec' = RvInsertAtReserved(vec, h.pos, v)
        /\ handles' = handles \ {h}
        /\ given' = [given EXCEPT ![h.slot] = [filled |-> TRUE, v |-> v, fill |-> Fills + 1]]
    /\ UNCHANGED out
    /\ UNCHANGED <<parserVars, positionVars, spanVars, ebnfVars, genVars>>

\* into() consumes the vector; it has no panicking path.
Into ==
    /\ ~out.done
    /\ out' = [done |-> TRUE, panicked |-> FALSE, v |-> RvInto(vec)]
    /\ UNCHANGED <<vec, handles, given>>
    /\ UNCHANGED <<parserVars, positionVars, spanVars, ebnfVars, genVars>>

NextReserve ==
    \/ Push
    \/ ReserveNext
    \/ InsertAtReserved
    \/ Into

SpecReserve == InitReserve /\ [][NextReserve]_vars

\* ---------------------------------------------------------------- Span::relative_location

\* The largest index a span on its own starts or ends at.
MaxSpanEnd == 3

\* The inputs of the spans held on their own.
SpanInputs == {[i \in 1..MaxSpanEnd |-> "a"], [i \in 1..MaxSpanEnd |-> "b"]}

\* A relative_location whose Encompasses test stands before its Within test.
SpanRelativeLocationEncompassesFirst(self, other) ==
    IF self.s # other.s THEN [ok |-> FALSE]
    ELSE IF self.start <= other.start /\ self.end <= other.start
         THEN [ok |-> TRUE, v |-> "Before"]
    ELSE IF self.start >= other.end THEN [ok |-> TRUE, v |-> "After"]
    ELSE IF self.start <= other.start /\ self.end >= other.end
         THEN [ok |-> TRUE, v |-> "Encompasses"]
    ELSE IF self.start >= other.start /\ self.end <= other.end
         THEN [ok |-> TRUE, v |-> "Within"]
    ELSE [ok |-> FALSE]

\* A relative_location whose Before needs a gap between the spans.
SpanRelativeLocationStrictBefore(self, other) ==
    IF self.s # other.s THEN [ok |-> FALSE]
    ELSE IF self.start <= other.start /\ self.end < other.start
         THEN [ok |-> TRUE, v |-> "Before"]
    ELSE IF self.start >= other.end THEN [ok |-> TRUE, v |-> "After"]
    ELSE IF self.start >= other.start /\ self.end <= other.end
         THEN [ok |-> TRUE, v |-> "Within"]
    ELSE IF self.start <= other.start /\ self.end >= other.end
         THEN [ok |-> TRUE, v |-> "Encompasses"]
    ELSE [ok |-> FALSE]

\* Span::relative_location(&self, other): the Result.
SpanRelativeLocation(self, other) ==
    IF self.s # other.s THEN [ok |-> FALSE]
    ELSE IF self.start <= other.start /\ self.end <= other.start
         THEN [ok |-> TRUE, v |-> "Before"]
    ELSE IF self.start >= other.end THEN [ok |-> TRUE, v |-> "After"]
    ELSE IF self.start >= other.start /\ self.end <= other.end
         THEN [ok |-> TRUE, v |-> "Within"]
    ELSE IF self.start <= other.start /\ self.end >= other.end
         THEN [ok |-> TRUE, v |-> "Encompasses"]
    ELSE [ok |-> FALSE]

\* Two spans built field by field (the fields of Span are public).
InitSpan ==
    /\ \E sa \in SpanInputs, sb \in SpanInputs :
       \E a1 \in 0..MaxSpanEnd, a2 \in 0..MaxSpanEnd,
          b1 \in 0..MaxSpanEnd, b2 \in 0..MaxSpanEnd :
            /\ spanA = Span(sa, a1, a2)
            /\ spanB = Span(sb, b1, b2)
    /\ loc = [ab |-> [done |-> FALSE], ba |-> [done |-> FALSE]]
    /\ ParserIdle
    /\ PositionIdle
    /\ ReserveIdle
    /\ EbnfIdle
    /\ GenIdle

\* spanA.relative_location(&spanB)
RelativeLocationAB ==
    /\ ~loc.ab.done
    /\ loc' = [loc EXCEPT !.ab = [done |-> TRUE, r |-> SpanRelativeLocation(spanA, spanB)]]
    /\ UNCHANGED <<spanA, spanB>>
    /\ UNCHANGED <<parserVars, positionVars, reserveVars, ebnfVars, genVars>>

\* spanB.relative_location(&spanA)
RelativeLocationBA ==
    /\ ~loc.ba.done
    /\ loc' = [loc EXCEPT !.ba = [done |-> TRUE, r |-> SpanRelativeLocation(spanB, spanA)]]
    /\ UNCHANGED <<spanA, spanB>>
    /\ UNCHANGED <<parserVars, positionVars, reserveVars, ebnfVars, genVars>>

NextSpan ==
    \/ RelativeLocationAB
    \/ RelativeLocationBA

SpecSpan == InitSpan /\ [][NextSpan]_vars

\* ---------------------------------------------------------------- EBNF syntax trees

\* Strings are sequences of one-character strings.
Quote == "\""

\* Rhs::Identifier(Identifier(s))
RhsIdentifier(s) == [op |-> "Identifier", s |-> s, kids |-> <<>>]

\* Rhs::Terminal(Terminal(s))
RhsTerminal(s) == [op |-> "Terminal", s |-> s, kids |-> <<>>]

\* Rhs::Optional(Box<Rhs>)
RhsOptional(r) == [op |-> "Optional", s |-> <<>>, kids |-> <<r>>]

\* Rhs::Repeat(Box<Rhs>)
RhsRepeat(r) == [op |-> "Repeat", s |-> <<>>, kids |-> <<r>>]

\* Rhs::Group(Box<Rhs>)
RhsGroup(r) == [op |-> "Group", s |-> <<>>, kids |-> <<r>>]

\* Rhs::Exception(Box<Rhs>, Box<Rhs>)
RhsException(a, b) == [op |-> "Exception", s |-> <<>>, kids |-> <<a, b>>]

\* Rhs::Alternation(Box<Rhs>, Box<Rhs>)
RhsAlternation(a, b) == [op |-> "Alternation", s |-> <<>>, kids |-> <<a, b>>]

\* Rhs::Concatenation(Box<Rhs>, Box<Rhs>)
RhsConcatenation(a, b) == [op |-> "Concatenation", s |-> <<>>, kids |-> <<a, b>>]

\* Production { lhs: Lhs(Identifier(l)), rhs }
Production(l, r) == [lhs |-> l, rhs |-> r]

\* Grammar { rules }
Grammar(rules) == [rules |-> rules]

\* impl Display for Identifier
IdentifierToString(s) == s

\* impl Display for Terminal: the text between double quotes.
TerminalToString(s) == <<Quote>> \o s \o <<Quote>>

RECURSIVE RhsToString(_)
\* impl Display for Rhs
RhsToString(r) ==
    CASE r.op = "Identifier" -> IdentifierToString(r.s)
      [] r.op = "Terminal" -> TerminalToString(r.s)
      [] r.op = "Optional" -> <<"[", " ">> \o RhsToString(r.kids[1]) \o <<" ", "]">>
      [] r.op = "Repeat" -> <<"{", " ">> \o RhsToString(r.kids[1]) \o <<" ", "}">>
      [] r.op = "Group" -> <<"(", " ">> \o RhsToString(r.kids[1]) \o <<" ", ")">>
      [] r.op = "Exception" ->
            RhsToString(r.kids[1]) \o <<" ", "-", " ">> \o RhsToString(r.kids[2])
      [] r.op = "Alternation" ->
            RhsToString(r.kids[1]) \o <<" ", "|", " ">> \o RhsToString(r.kids[2])
      [] r.op = "Concatenation" ->
            RhsToString(r.kids[1]) \o <<" ", ",", " ">> \o RhsToString(r.kids[2])

\* impl Display for Production
ProductionToString(p) ==
    IdentifierToString(p.lhs) \o <<" ", "=", " ">> \o RhsToString(p.rhs) \o <<" ", ";">>

RECURSIVE RulesToString(_)
\* The loop of impl Display for Grammar: writeln!(f, "{}", rule) per rule.
RulesToString(rules) ==
    IF rules = <<>> THEN <<>>
    ELSE ProductionToString(Head(rules)) \o <<"\n">> \o RulesToString(Tail(rules))

\* impl Display for Grammar
GrammarToString(g) == RulesToString(g.rules)

\* ---------------------------------------------------------------- EBNF parser (nom)

\* IResult: Err(Error(..)); the parsers used are the complete ones, which
\* return no Incomplete and no Failure.
IErr == [ok |-> FALSE]

\* IResult: Ok((rem, v))
IOk(rem, v) == [ok |-> TRUE, rem |-> rem, v |-> v]

\* &input[n..]
Drop(input, n) == SubSeq(input, n + 1, Len(input))

\* &input[..n]
Take(input, n) == SubSeq(input, 1, n)

\* input.starts_with(t)
IsPrefix(t, input) == Len(t) <= Len(input) /\ Take(input, Len(t)) = t

\* nom::bytes::complete::tag(t)
tag(t, input) == IF IsPrefix(t, input) THEN IOk(Drop(input, Len(t)), t) ELSE IErr

\* A take_until that takes up to the last occurrence of t.
take_until_last(t, input) ==
    LET hits == {i \in 0..Len(input) : IsPrefix(t, Drop(input, i))}
    IN  IF hits = {} THEN IErr
        ELSE LET i == CHOOSE h \in hits : \A k \in hits : h >= k
             IN  IOk(Drop(input, i), Take(input, i))

\* nom::bytes::complete::take_until(t): up to the first occurrence of t, which
\* is left in the remainder; an error when t does not occur.
take_until(t, input) ==
    LET hits == {i \in 0..Len(input) : IsPrefix(t, Drop(input, i))}
    IN  IF hits = {} THEN IErr
        ELSE LET i == CHOOSE h \in hits : \A k \in hits : h <= k
             IN  IOk(Drop(input, i), Take(input, i))

\* nom::bytes::complete::take_while(c in chars): the longest such prefix.
take_while(chars, input) ==
    LET n == CHOOSE m \in 0..Len(input) :
                /\ \A i \in 1..m : input[i] \in chars
                /\ m < Len(input) => input[m + 1] \notin chars
    IN  IOk(Drop(input, n), Take(input, n))

\* nom::character::complete::space0
space0(input) == take_while({" ", "\t"}, input)

\* A delimited whose body ends at the first closing bracket of any kind.
delimited_any_close(open, close, input) ==
    LET o == tag(open, input)
        ends == {i \in 0..Len(input) :
                    /\ i >= Len(open)
                    /\ \/ IsPrefix(close, Drop(input, i))
                       \/ \E b \in {")", "]", "}"} : IsPrefix(<<b>>, Drop(input, i))}
    IN  IF ~o.ok \/ ends = {} THEN IErr
        ELSE LET i == CHOOSE h \in ends : \A k \in ends : h <= k
                 c == tag(close, Drop(input, i))
             IN  IF ~c.ok THEN IErr
                 ELSE IOk(c.rem, SubSeq(input, Len(open) + 1, i))

\* nom::sequence::delimited(tag(open), take_until(close), tag(close))
delimited(open, close, input) ==
    LET o == tag(open, input)
    IN  IF ~o.ok THEN IErr
        ELSE LET m == take_until(close, o.rem)
             IN  IF ~m.ok THEN IErr
                 ELSE LET c == tag(close, m.rem)
                      IN  IF ~c.ok THEN IErr ELSE IOk(c.rem, m.v)

\* char::is_ascii_alphabetic
Alpha ==
    {"a", "b", "c", "d", "e", "f", "g", "h", "i", "j", "k", "l", "m",
     "n", "o", "p", "q", "r", "s", "t", "u", "v", "w", "x", "y", "z",
     "A", "B", "C", "D", "E", "F", "G", "H", "I", "J", "K", "L", "M",
     "N", "O", "P", "Q", "R", "S", "T", "U", "V", "W", "X", "Y", "Z"}

\* char::is_ascii_digit
Digit == {"0", "1", "2", "3", "4", "5", "6", "7", "8", "9"}

\* parser::terminal: a text between double or between single quotes.
terminal(input) ==
    LET d == delimited(<<Quote>>, <<Quote>>, input)
    IN  IF d.ok THEN d ELSE delimited(<<"'">>, <<"'">>, input)

\* parser::identifier: alpha1 or "_", then many0 of alphanumeric1 or "_".
identifier(input) ==
    IF input # <<>> /\ input[1] \in Alpha \cup {"_"}
    THEN take_while(Alpha \cup Digit \cup {"_"}, input)
    ELSE IErr

\* parser::lhs
lhs(input) == identifier(input)

\* parser::rhs_identifier
rhs_identifier(input) ==
    LET m == identifier(input)
    IN  IF m.ok THEN IOk(m.rem, RhsIdentifier(m.v)) ELSE IErr

\* parser::rhs_terminal
rhs_terminal(input) ==
    LET m == terminal(input)
    IN  IF m.ok THEN IOk(m.rem, RhsTerminal(m.v)) ELSE IErr

RECURSIVE rhs(_)

\* separated_pair(take_until(sep), tag(sep), rhs), then rhs on the text taken:
\* the body shared by rhs_exception, rhs_alternation and rhs_concatenation.
rhs_binary(op, sep, input) ==
    LET m1 == take_until(sep, input)
    IN  IF ~m1.ok THEN IErr
        ELSE LET t == tag(sep, m1.rem)
                 m2 == rhs(t.rem)
             IN  IF ~t.ok \/ ~m2.ok THEN IErr
                 ELSE LET inner1 == rhs(m1.v)
                      IN  IF ~inner1.ok THEN IErr
                          ELSE IOk(m2.rem, [op |-> op, s |-> <<>>,
                                            kids |-> <<inner1.v, m2.v>>])

\* parser::rhs_exception
rhs_exception(input) == rhs_binary("Exception", <<"-">>, input)

\* parser::rhs_alternation
rhs_alternation(input) == rhs_binary("Alternation", <<"|">>, input)

\* parser::rhs_concatenation
rhs_concatenation(input) == rhs_binary("Concatenation", <<",">>, input)

\* delimited(tag(open), take_until(close), tag(close)), then rhs on the text
\* taken: the body shared by rhs_group, rhs_repetition and rhs_optional.
rhs_bracket(op, open, close, input) ==
    LET m == delimited(open, close, input)
    IN  IF ~m.ok THEN IErr
        ELSE LET inner_rhs == rhs(m.v)
             IN  IF ~inner_rhs.ok THEN IErr
                 ELSE IOk(m.rem, [op |-> op, s |-> <<>>, kids |-> <<inner_rhs.v>>])

\* parser::rhs_group
rhs_group(input) == rhs_bracket("Group", <<"(">>, <<")">>, input)

\* parser::rhs_repetition
rhs_repetition(input) == rhs_bracket("Repeat", <<"{">>, <<"}">>, input)

\* parser::rhs_optional
rhs_optional(input) == rhs_bracket("Optional", <<"[">>, <<"]">>, input)

\* parser::rhs: space0, then the first of the eight parsers that succeeds.
rhs(input) ==
    LET i == space0(input).rem
        group == rhs_group(i)
        repetition == rhs_repetition(i)
        optional == rhs_optional(i)
        alternation == rhs_alternation(i)
        concatenation == rhs_concatenation(i)
        exception == rhs_exception(i)
        term == rhs_terminal(i)
    IN  IF group.ok THEN group
        ELSE IF repetition.ok THEN repetition
        ELSE IF optional.ok THEN optional
        ELSE IF alternation.ok THEN alternation
        ELSE IF concatenation.ok THEN concatenation
        ELSE IF exception.ok THEN exception
        ELSE IF term.ok THEN term
        ELSE rhs_identifier(i)

\* The end of parser::production: the Production of the parsed lhs and rhs,
\* an error if either failed.
production_of(rule_lhs, rule_rhs, rem) ==
    IF ~rule_lhs.ok \/ ~rule_rhs.ok THEN IErr
    ELSE IOk(rem, Production(rule_lhs.v, rule_rhs.v))

\* parser::production: the text up to the first "=", the text up to the first
\* ";" after it, then lhs and rhs on the two texts; what lhs and rhs leave
\* unconsumed is dropped.
production(input) ==
    LET l == take_until(<<"=">>, input)
    IN  IF ~l.ok THEN IErr
        ELSE LET r == take_until(<<";">>, tag(<<"=">>, l.rem).rem)
             IN  IF ~r.ok THEN IErr
                 ELSE production_of(lhs(l.v), rhs(r.v), tag(<<";">>, r.rem).rem)

\* parser::whitespace
whitespace(input) == take_while({" ", "\t", "\r", "\n"}, input)

\* parser::comment
comment(input) == delimited(<<"(", "*">>, <<"*", ")">>, input)

\* parser::comment_and_whitespace: whitespace, one comment, whitespace; or
\* whitespace alone.
comment_and_whitespace(input) ==
    LET c == comment(whitespace(input).rem)
    IN  IF c.ok THEN whitespace(c.rem) ELSE whitespace(input)

\* terminated(p, comment_and_whitespace): the value of p, the trailing
\* comment and whitespace consumed.
terminated(p) ==
    IF ~p.ok THEN IErr ELSE IOk(comment_and_whitespace(p.rem).rem, p.v)

\* terminated(preceded(comment_and_whitespace, production), comment_and_whitespace)
grammar_rule(input) == terminated(production(comment_and_whitespace(input).rem))

RECURSIVE many0_rules(_, _)
RECURSIVE many0_next(_, _, _)
\* A many0 that hands the element's error on instead of stopping with Ok.
many0_next_failing(input, acc, e) ==
    IF ~e.ok THEN IErr
    ELSE IF Len(e.rem) = Len(input) THEN IErr
    ELSE many0_rules(e.rem, Append(acc, e.v))

\* One turn of many0's loop on the element's result e: stops with Ok at the
\* first error of the element, and is an error if an element consumed nothing.
many0_next(input, acc, e) ==
    IF ~e.ok THEN IOk(input, acc)
    ELSE IF Len(e.rem) = Len(input) THEN IErr
    ELSE many0_rules(e.rem, Append(acc, e.v))

\* nom::multi::many0 over grammar_rule
many0_rules(input, acc) == many0_next(input, acc, grammar_rule(input))

\* parser::grammar
grammar(input) ==
    LET m == many0_rules(input, <<>>)
    IN  IF m.ok THEN IOk(m.rem, Grammar(m.v)) ELSE IErr

\* The Result of from_str: the value of the IResult, the remainder dropped.
FromStr(r) == IF r.ok THEN [ok |-> TRUE, v |-> r.v] ELSE [ok |-> FALSE]

\* ---------------------------------------------------------------- EBNF: print, then parse

\* The most nodes of an enumerated Rhs.
MaxRhsNodes == 5

\* The most operands of an enumerated chain x1 | x2 | ... | xn.
MaxChain == 4

\* The most productions of an enumerated Grammar.
MaxRules == 2

\* The leaves of the enumerated trees: an identifier and a terminal whose
\* text holds no delimiter.
PlainLeaves == {RhsIdentifier(<<"a">>), RhsTerminal(<<"c">>)}

\* The unary and the binary constructors of Rhs.
UnaryOps == {"Optional", "Repeat", "Group"}
BinaryOps == {"Exception", "Alternation", "Concatenation"}

RECURSIVE RhsOfSize(_)
\* Every Rhs of n nodes over PlainLeaves.
RhsOfSize(n) ==
    IF n = 1 THEN PlainLeaves
    ELSE {[op |-> u, s |-> <<>>, kids |-> <<r>>] : u \in UnaryOps, r \in RhsOfSize(n - 1)}
         \cup UNION {{[op |-> b, s |-> <<>>, kids |-> <<l, r>>] :
                        b \in BinaryOps, l \in RhsOfSize(k), r \in RhsOfSize(n - 1 - k)} :
                     k \in 1..(n - 2)}

\* Every Rhs of at most n nodes over PlainLeaves.
RhsUpTo(n) == UNION {RhsOfSize(k) : k \in 1..n}

\* The identifiers of the chains.
ChainIdentifiers == {<<"a">>, <<"b", "_", "1">>}

RECURSIVE ChainOf(_, _)
\* The right-nested tree op(x1, op(x2, ... xn)) over the identifiers xs.
ChainOf(op, xs) ==
    IF Len(xs) = 1 THEN RhsIdentifier(xs[1])
    ELSE [op |-> op, s |-> <<>>, kids |-> <<RhsIdentifier(Head(xs)), ChainOf(op, Tail(xs))>>]

\* The chains of 2 .. MaxChain identifiers.
Chains ==
    {ChainOf(op, xs) : op \in {"Alternation", "Concatenation"},
                       xs \in UNION {[1..n -> ChainIdentifiers] : n \in 2..MaxChain}}

\* Terminal texts of one character that is a delimiter of the grammar
\* notation, and one that is none.
DelimiterTexts ==
    {<<";">>, <<"|">>, <<",">>, <<"-">>, <<"=">>, <<"(">>, <<")">>,
     <<"[">>, <<"]">>, <<"{">>, <<"}">>, <<"'">>, <<"*">>, <<"x">>}

\* A terminal of such a text alone, and as an operand of a concatenation and
\* of an alternation.
DelimiterRhs ==
    {RhsTerminal(t) : t \in DelimiterTexts}
    \cup {[op |-> b, s |-> <<>>, kids |-> <<RhsTerminal(t), RhsIdentifier(<<"a">>)>>] :
            b \in {"Alternation", "Concatenation"}, t \in DelimiterTexts}
    \cup {[op |-> b, s |-> <<>>, kids |-> <<RhsIdentifier(<<"a">>), RhsTerminal(t)>>] :
            b \in {"Alternation", "Concatenation"}, t \in DelimiterTexts}

\* The productions printed and parsed.
Productions ==
    {Production(l, r) : l \in {<<"a">>, <<"x", "1">>}, r \in RhsUpTo(4)}
    \cup {Production(<<"x">>, RhsTerminal(t)) : t \in DelimiterTexts}

\* The grammars printed and parsed: up to MaxRules productions.
Grammars ==
    {Grammar(rules) :
        rules \in UNION {[1..n -> {Production(l, r) : l \in {<<"a">>, <<"c">>},
                                                       r \in RhsUpTo(2)}] :
                         n \in 0..MaxRules}}

\* A tree to print, and nothing printed or parsed yet.
InitEbnf ==
    /\ ast \in {[kind |-> "rhs", v |-> r] : r \in RhsUpTo(MaxRhsNodes) \cup Chains \cup DelimiterRhs}
             \cup {[kind |-> "production", v |-> q] : q \in Productions}
             \cup {[kind |-> "grammar", v |-> g] : g \in Grammars}
    /\ text = [done |-> FALSE]
    /\ parsed = [done |-> FALSE]
    /\ ParserIdle
    /\ PositionIdle
    /\ ReserveIdle
    /\ SpanIdle
    /\ GenIdle

\* What the parser returned, and what from_str made of it.
Parsed(r) == [done |-> TRUE, parse |-> r, from_str |-> FromStr(r)]

\* rhs.to_string()
DisplayRhs ==
    /\ ast.kind = "rhs"
    /\ ~text.done
    /\ text' = [done |-> TRUE, s |-> RhsToString(ast.v)]
    /\ UNCHANGED <<ast, parsed>>
    /\ UNCHANGED <<parserVars, positionVars, reserveVars, spanVars, genVars>>

\* Rhs::from_str(&text)
FromStrRhs ==
    /\ ast.kind = "rhs"
    /\ text.done
    /\ ~parsed.done
    /\ parsed' = Parsed(rhs(text.s))
    /\ UNCHANGED <<ast, text>>
    /\ UNCHANGED <<parserVars, positionVars, reserveVars, spanVars, genVars>>

\* production.to_string()
DisplayProduction ==
    /\ ast.kind = "production"
    /\ ~text.done
    /\ text' = [done |-> TRUE, s |-> ProductionToString(ast.v)]
    /\ UNCHANGED <<ast, parsed>>
    /\ UNCHANGED <<parserVars, positionVars, reserveVars, spanVars, genVars>>

\* Production::from_str(&text)
FromStrProduction ==
    /\ ast.kind = "production"
    /\ text.done
    /\ ~parsed.done
    /\ parsed' = Parsed(production(text.s))
    /\ UNCHANGED <<ast, text>>
    /\ UNCHANGED <<parserVars, positionVars, reserveVars, spanVars, genVars>>

\* grammar.to_string()
DisplayGrammar ==
    /\ ast.kind = "grammar"
    /\ ~text.done
    /\ text' = [done |-> TRUE, s |-> GrammarToString(ast.v)]
    /\ UNCHANGED <<ast, parsed>>
    /\ UNCHANGED <<parserVars, positionVars, reserveVars, spanVars, genVars>>

\* Grammar::from_str(&text)
FromStrGrammar ==
    /\ ast.kind = "grammar"
    /\ text.done
    /\ ~parsed.done
    /\ parsed' = Parsed(grammar(text.s))
    /\ UNCHANGED <<ast, text>>
    /\ UNCHANGED <<parserVars, positionVars, reserveVars, spanVars, genVars>>

NextEbnf ==
    \/ DisplayRhs
    \/ FromStrRhs
    \/ DisplayProduction
    \/ FromStrProduction
    \/ DisplayGrammar
    \/ FromStrGrammar

SpecEbnf == InitEbnf /\ [][NextEbnf]_vars

\* ---------------------------------------------------------------- EBNF: texts written by hand

\* The most pieces of an enumerated grammar text.
MaxPieces == 4

\* Well-formed productions: a=b; and c='x';
GoodPieces == {<<"a", "=", "b", ";">>, <<"c", "=", "'", "x", "'", ";">>}

\* Productions with a structural mismatch: no '=' (a b;), no ';' (a=b), an
\* lhs that is no identifier (1=b;), an rhs that is no rhs (a=;).
NoEquals == <<"a", " ", "b", ";">>
NoSemicolon == <<"a", "=", "b">>
BadLhs == <<"1", "=", "b", ";">>
BadRhs == <<"a", "=", ";">>
BadPieces == {NoEquals, NoSemicolon, BadLhs, BadRhs}

\* A comment (*z*) and a whitespace run.
CommentPiece == <<"(", "*", "z", "*", ")">>
SpacePiece == <<" ", "\n">>

Pieces == GoodPieces \cup BadPieces \cup {CommentPiece, SpacePiece}

RECURSIVE Concat(_)
\* The text made of the pieces ps, in order.
Concat(ps) == IF ps = <<>> THEN <<>> ELSE Head(ps) \o Concat(Tail(ps))

\* A grammar text of up to MaxPieces pieces, not yet parsed.  ast records the
\* pieces the text was written from.
InitText ==
    /\ \E ps \in UNION {[1..n -> Pieces] : n \in 0..MaxPieces} :
        /\ ast = [kind |-> "grammar", pieces |-> ps]
        /\ text = [done |-> TRUE, s |-> Concat(ps)]
    /\ parsed = [done |-> FALSE]
    /\ ParserIdle
    /\ PositionIdle
    /\ ReserveIdle
    /\ SpanIdle
    /\ GenIdle

NextText == FromStrGrammar

SpecText == InitText /\ [][NextText]_vars

\* ---------------------------------------------------------------- parser generator

\* The most productions of a grammar handed to the generator.
MaxGenRules == 2

\* A piece of generated code: a call of a rule function (op "call", its name
\* in s), state.match_str(s), or a combinator call over the pieces in kids.
Code(op, s, kids) == [panic |-> FALSE, e |-> [op |-> op, s |-> s, kids |-> kids]]

\* An arm for Exception that emits code in place of the panic.
UnimplementedSkipped == Code("match_str", <<>>, <<>>)

\* unimplemented!("exception"): a panic.
Unimplemented == [panic |-> TRUE]

RECURSIVE generate_rhs_expression(_)
\* generate::generate_rhs_expression: the code for an Rhs, or the panic of
\* one of the recursive calls, made in the order of the operands.
generate_rhs_expression(r) ==
    LET one(op) ==
            LET rhs_expr == generate_rhs_expression(r.kids[1])
            IN  IF rhs_expr.panic THEN rhs_expr ELSE Code(op, <<>>, <<rhs_expr.e>>)
        two(op) ==
            LET rhs1_expr == generate_rhs_expression(r.kids[1])
                rhs2_expr == generate_rhs_expression(r.kids[2])
            IN  IF rhs1_expr.panic THEN rhs1_expr
                ELSE IF rhs2_expr.panic THEN rhs2_expr
                ELSE Code(op, <<>>, <<rhs1_expr.e, rhs2_expr.e>>)
    IN  CASE r.op = "Identifier" -> Code("call", IdentifierToString(r.s), <<>>)
          [] r.op = "Terminal" ->
                Code("match_str", <<Quote>> \o TerminalToString(r.s) \o <<Quote>>, <<>>)
          [] r.op = "Optional" -> one("optional")
          [] r.op = "Repeat" -> one("repeat")
          [] r.op = "Alternation" -> two("or_else")
          [] r.op = "Concatenation" -> two("and_then")
          [] r.op = "Group" -> one("apply")
          [] OTHER -> Unimplemented

\* generate::generate_rule_function: fn name(state) { state.tokenize(Rule::name, |state| body) }
generate_rule_function(rule) ==
    LET gen_expr == generate_rhs_expression(rule.rhs)
    IN  IF gen_expr.panic THEN gen_expr
        ELSE [panic |-> FALSE, e |-> [name |-> IdentifierToString(rule.lhs), body |-> gen_expr.e]]

\* generate::generate_rule_enum: the variants of enum Rule, one per production.
generate_rule_enum(g) == [i \in 1..Len(g.rules) |-> IdentifierToString(g.rules[i].lhs)]

\* generate::generate_patterns: the arms Rule::name => rule_impls::name(state).
generate_patterns(g) == [i \in 1..Len(g.rules) |-> IdentifierToString(g.rules[i].lhs)]

\* generate::generate_impl: the arms and the rule functions, or the panic of
\* a generate_rule_function.
generate_impl(g) ==
    LET gen_patterns == generate_patterns(g)
        gen_rules == [i \in 1..Len(g.rules) |-> generate_rule_function(g.rules[i])]
    IN  IF \E i \in 1..Len(g.rules) : gen_rules[i].panic THEN [panic |-> TRUE]
        ELSE [panic |-> FALSE, patterns |-> gen_patterns,
              rule_fns |-> [i \in 1..Len(g.rules) |-> gen_rules[i].e]]

\* generate::generate, from the grammar on: the token stream returned, or a
\* panic. No Result is returned: a DeriveError can only come from loading the
\* grammar.
generate(g) ==
    LET generated_rules == generate_rule_enum(g)
        generated_impl == generate_impl(g)
    IN  IF generated_impl.panic THEN [done |-> TRUE, outcome |-> "panic"]
        ELSE [done |-> TRUE, outcome |-> "Ok", rule_enum |-> generated_rules,
              patterns |-> generated_impl.patterns, rule_fns |-> generated_impl.rule_fns]

\* The right-hand sides of the grammars generated from: every Rhs of up to
\* three nodes, and an Exception below another node.
GenRhs ==
    RhsUpTo(3)
    \cup {[op |-> u, s |-> <<>>,
           kids |-> <<RhsException(RhsIdentifier(<<"a">>), RhsTerminal(<<"c">>))>>] :
            u \in UnaryOps}
    \cup {[op |-> b, s |-> <<>>,
           kids |-> <<RhsIdentifier(<<"a">>),
                      RhsException(RhsIdentifier(<<"a">>), RhsTerminal(<<"c">>))>>] :
            b \in {"Alternation", "Concatenation"}}
    \cup {[op |-> b, s |-> <<>>,
           kids |-> <<RhsException(RhsIdentifier(<<"a">>), RhsTerminal(<<"c">>)),
                      RhsIdentifier(<<"a">>)>>] :
            b \in {"Alternation", "Concatenation"}}

\* The grammars generated from: up to MaxGenRules productions of a or b.
GenGrammars ==
    {Grammar(rules) :
        rules \in UNION {[1..n -> {Production(l, r) : l \in {<<"a">>, <<"b">>}, r \in GenRhs}] :
                         n \in 0..MaxGenRules}}

\* A grammar loaded, nothing generated yet.
InitGenerate ==
    /\ source \in GenGrammars
    /\ generated = [done |-> FALSE]
    /\ derive_input = [attrs |-> <<>>, file |-> [ok |-> FALSE]]
    /\ loaded = [done |-> FALSE]
    /\ ParserIdle
    /\ PositionIdle
    /\ ReserveIdle
    /\ SpanIdle
    /\ EbnfIdle

\* generate(ast), from the grammar loaded.
Generate ==
    /\ ~generated.done
    /\ generated' = generate(source)
    /\ UNCHANGED <<source, derive_input, loaded>>
    /\ UNCHANGED <<parserVars, positionVars, reserveVars, spanVars, ebnfVars>>

NextGenerate == Generate

SpecGenerate == InitGenerate /\ [][NextGenerate]_vars

\* ---------------------------------------------------------------- loading the grammar

\* The most attributes of an enumerated DeriveInput.
MaxAttrs == 3

EBNF_FILE_ATTR == "ebnf_file"

EBNF_INLINE_ATTR == "ebnf_inline"

\* Lit::Str(value), and a literal of another kind.
LitStr(value) == [kind |-> "Str", value |-> value]
LitInt == [kind |-> "Int"]

\* #[path = lit]: parse_meta gives Meta::NameValue.
AttrNameValue(path, lit) == [meta |-> "NameValue", path |-> path, lit |-> lit]

\* #[path(..)]: parse_meta gives Meta::List.
AttrList(path) == [meta |-> "List", path |-> path]

\* An attribute whose parse_meta is an Err.
AttrNoMeta == [meta |-> "Err"]

\* Err(DeriveError::..), Ok(grammar), and the panic of an unwrap.
DeriveErr(e) == [outcome |-> "Err", err |-> e]
DeriveOk(g) == [outcome |-> "Ok", v |-> g]
DerivePanic == [outcome |-> "panic"]

\* The filter closure of grammar_from_ast: a name-value attribute named
\* ebnf_file or ebnf_inline.
IsSource(attr) ==
    /\ attr.meta = "NameValue"
    /\ attr.path \in {EBNF_FILE_ATTR, EBNF_INLINE_ATTR}

\* let grammar: Grammar = text.parse().unwrap(); Ok(grammar)
ParseUnwrap(r) == IF r.ok THEN DeriveOk(r.v) ELSE DerivePanic

\* The match on source_attr.parse_meta(): the grammar of the one source.
LoadSource(source_attr, file) ==
    IF source_attr.meta = "Err" THEN DeriveErr("Other")
    ELSE IF source_attr.meta # "NameValue" THEN DeriveErr("Other")
    ELSE IF source_attr.lit.kind # "Str" THEN DeriveErr("Other")
    ELSE IF source_attr.path = EBNF_FILE_ATTR
         THEN IF ~file.ok THEN DeriveErr("Other")
              ELSE ParseUnwrap(FromStr(grammar(file.data)))
    ELSE ParseUnwrap(FromStr(grammar(source_attr.lit.value)))

\* A grammar_from_ast that takes the first of several sources.
grammar_from_ast_first(ast_in) ==
    LET sources == SelectSeq(ast_in.attrs, IsSource)
    IN  IF Len(sources) = 0 THEN DeriveErr("MissingGrammarSource")
        ELSE LoadSource(sources[1], ast_in.file)

\* generate::grammar_from_ast
grammar_from_ast(ast_in) ==
    LET sources == SelectSeq(ast_in.attrs, IsSource)
    IN  IF Len(sources) = 0 THEN DeriveErr("MissingGrammarSource")
        ELSE IF Len(sources) = 1 THEN LoadSource(sources[1], ast_in.file)
        ELSE DeriveErr("MultipleGrammarSources")

\* The attributes a type carries: grammar sources inline and from a file with
\* a string or another literal, the same names in list form, other attributes.
Attributes ==
    {AttrNameValue(path, lit) :
        path \in {EBNF_FILE_ATTR, EBNF_INLINE_ATTR, "doc"},
        lit \in {LitStr(<<"a", "=", "b", ";">>), LitStr(BadRhs), LitInt}}
    \cup {AttrList(path) : path \in {EBNF_INLINE_ATTR, "derive"}}
    \cup {AttrNoMeta}

\* What fs::read_to_string gives: the file's text, or an error.
Files == {[ok |-> FALSE], [ok |-> TRUE, data |-> <<"c", "=", "'", "x", "'", ";">>]}

\* A type with up to MaxAttrs attributes, its grammar not yet loaded.
InitLoad ==
    /\ derive_input \in {[attrs |-> attrs, file |-> file] :
                            attrs \in UNION {[1..n -> Attributes] : n \in 0..MaxAttrs},
                            file \in Files}
    /\ loaded = [done |-> FALSE]
    /\ source = [rules |-> <<>>]
    /\ generated = [done |-> FALSE]
    /\ ParserIdle
    /\ PositionIdle
    /\ ReserveIdle
    /\ SpanIdle
    /\ EbnfIdle

\* grammar_from_ast(&ast)
GrammarFromAst ==
    /\ ~loaded.done
    /\ loaded' = [done |-> TRUE, r |-> grammar_from_ast(derive_input)]
    /\ UNCHANGED <<source, generated, derive_input>>
    /\ UNCHANGED <<parserVars, positionVars, reserveVars, spanVars, ebnfVars>>

NextLoad == GrammarFromAst

SpecLoad == InitLoad /\ [][NextLoad]_vars


\* ---------------------------------------------------------------- claims: token order

\* The parse returned Ok and every tokenize call it made succeeded.
AllSucceeded == Done /\ res = "Ok" /\ Len(tokens) = calls

\* The token that tokenize call c pushed.
TokenOfCall(c) == tokens[CHOOSE i \in 1..Len(tokens) : tokens[i].call = c]

RECURSIVE IsAncestor(_, _)
\* Token d was pushed while the body of the tokenize call of token a was running.
IsAncestor(a, d) ==
    /\ d.parent # 0
    /\ \/ d.parent = a.call
       \/ IsAncestor(a, TokenOfCall(d.parent))

\* The rules of the tokens, in order.
RulesOf(toks) == [i \in 1..Len(toks) |-> toks[i].rule]

\* C1: when every nested tokenize call succeeded, tokens() lists each rule's
\* token before the tokens of every rule tokenized inside its body, whatever
\* the spans (two tokens the program cannot tell apart may stand in either
\* order), and the doc test's parse of "ababa" yields the rules
\* [ababa, ab, a, b, ab, a, b, a].
C1_ParentBeforeDescendants ==
    /\ AllSucceeded =>
        \A i, j \in 1..Len(tokens) :
            IsAncestor(tokens[i], tokens[j]) =>
                (i < j \/ Observed(tokens[i]) = Observed(tokens[j]))
    /\ (Done /\ prog = RuleABABA) =>
        /\ res = "Ok"
        /\ RulesOf(tokens) = <<"ababa", "ab", "a", "b", "ab", "a", "b", "a">>

\* C2: after a successful parse, two tokens of sibling tokenize calls stand in
\* tokens() in the order in which they were parsed, also when one of them has
\* an empty span.
C2_SiblingsInParseOrder ==
    (Done /\ res = "Ok") =>
        \A i, j \in 1..Len(tokens) :
            (tokens[i].parent = tokens[j].parent /\ tokens[i].call < tokens[j].call) =>
                (i < j \/ Observed(tokens[i]) = Observed(tokens[j]))

\* ---------------------------------------------------------------- claims: tokenize, repeat

\* C3: when the body of tokenize fails, tokenize returns Err with the token
\* list and the cursor of the state at its entry.
C3_TokenizeErrRestores ==
    last.op = "tokenize_err" =>
        /\ res = "Err"
        /\ tokens = last.frame.toks0
        /\ cursor = last.frame.start

\* C4: every call of repeat returns (or the run reaches the model's bound on
\* tokenize calls).
C4_RepeatTerminates == (last.op = "repeat") ~> (last.op = "repeat_err" \/ Capped)

\* The tokens of rule r, in order.
TokensOfRule(toks, r) == SelectSeq(toks, LAMBDA tok : tok.rule = r)

\* C5: when repeat returns it returns Ok with the state after the last
\* successful application of f, or its initial state when f never succeeded;
\* one digit repeated over "789X" ends at index 3 with three digit tokens.
C5_RepeatReturnsLastSuccess ==
    /\ last.op = "repeat_err" =>
        /\ res = "Ok"
        /\ cursor = last.frame.start
        /\ tokens = last.frame.toks0
    /\ (Done /\ prog = Rep(RuleDigit) /\ cursor.input = <<"7", "8", "9", "X">>) =>
        /\ res = "Ok"
        /\ cursor.idx = 3
        /\ Len(TokensOfRule(tokens, "digit")) = 3
        /\ Len(tokens) = 3


\* How many tokens of toks the program sees as x.
Count(toks, x) == Cardinality({i \in 1..Len(toks) : Observed(toks[i]) = x})

\* C6: when the body of tokenize(rule, body) succeeds, tokenize returns Ok, the
\* cursor is where the body left it, and the token list holds the tokens the
\* body left and one more: the token of rule over [cursor index at the entry
\* of tokenize, cursor index after the body).
C6_TokenizeOkAddsToken ==
    last.op = "tokenize_ok" =>
        LET new == [rule |-> last.frame.e.rule, start |-> last.frame.start.idx,
                    end |-> last.cursor.idx]
        IN  /\ res = "Ok"
            /\ cursor = last.cursor
            /\ Len(tokens) = Len(last.tokens) + 1
            /\ \A x \in {Observed(tokens[i]) : i \in 1..Len(tokens)} \cup {new} :
                Count(tokens, x) = Count(last.tokens, x) + (IF x = new THEN 1 ELSE 0)

\* A tokenize whose body moved the cursor and left a token has returned Ok.
C6_Witness ==
    /\ last.op = "tokenize_ok"
    /\ res = "Ok"
    /\ last.cursor.idx > last.frame.start.idx
    /\ Len(last.tokens) > last.frame.tok_len

\* C7: optional(f) returns Ok whatever f returned, with the cursor and the
\* tokens of the state f returned.
C7_OptionalOkKeepsState ==
    last.op = "optional_return" =>
        /\ res = "Ok"
        /\ cursor = last.cursor
        /\ tokens = last.tokens

\* An optional whose f failed after moving the cursor and pushing a token has
\* returned, and the progress is kept.
C7_Witness ==
    /\ last.op = "optional_return"
    /\ last.res = "Err"
    /\ res = "Ok"
    /\ cursor.idx > last.frame.start.idx
    /\ Len(tokens) > Len(last.frame.toks0)

\* The bytes [i, i + len(s)) of input exist and equal s.
BytesEqual(input, i, s) ==
    /\ i + Len(s) <= Len(input)
    /\ \A k \in 1..Len(s) : input[i + k] = s[k]

\* C8: match_str(s) at index i returns Ok iff the input bytes [i, i+len(s))
\* exist and equal s; the index is then i+len(s), and stays i on Err; the
\* token list is unchanged; the empty string always matches.
C8_MatchStrFrame ==
    last.op = "match_str" =>
        LET s == last.frame.e.s
            i == last.cursor.idx
            fits == BytesEqual(last.cursor.input, i, s)
        IN  /\ res = (IF fits THEN "Ok" ELSE "Err")
            /\ cursor.input = last.cursor.input
            /\ cursor.idx = (IF fits THEN i + Len(s) ELSE i)
            /\ tokens = last.tokens
            /\ s = <<>> => (res = "Ok" /\ cursor = last.cursor)

\* A match_str of two bytes has succeeded past the start of the input, with a
\* token in the list.
C8_Witness ==
    /\ last.op = "match_str"
    /\ res = "Ok"
    /\ Len(last.frame.e.s) = 2
    /\ last.cursor.idx > 0
    /\ cursor.idx = last.cursor.idx + 2
    /\ tokens # <<>>

\* C9: Position::new(input, start) succeeds iff start <= input.len(), and the
\* index of a constructed position stays within 0 .. input.len() under any
\* match_str calls.
C9_PositionBounds ==
    /\ position.ok <=> posLog.start <= Len(posLog.input)
    /\ position.ok =>
        /\ position.pos.input = posLog.input
        /\ 0 <= position.pos.idx
        /\ position.pos.idx <= Len(posLog.input)

\* A position constructed inside the input was moved to its end by a match_str.
C9_Witness ==
    /\ position.ok
    /\ posLog.calls = 1
    /\ posLog.matched
    /\ posLog.from < position.pos.idx
    /\ position.pos.idx = Len(posLog.input)

\* C10: when every reserved handle was filled, into() yields for each slot, in
\* the order of the push and reserve_next calls, the value pushed at or
\* inserted into it, and as many values as there were such calls.
C10_ReserveVecOrder ==
    (out.done /\ handles = {}) =>
        /\ Len(out.v) = Len(given)
        /\ \A i \in 1..Len(given) : out.v[i] = given[i].v

\* push; reserve; push; reserve, the second reservation filled before the
\* first, and the vector finalized.
C10_Witness ==
    /\ out.done
    /\ handles = {}
    /\ Len(given) = 4
    /\ given[1].fill = 0
    /\ given[3].fill = 0
    /\ given[4].fill = 1
    /\ given[2].fill = 2
    /\ out.v = <<"c", "d", "c", "d">>

\* The reserved slots of vc that were never filled.
Unfilled(vc) == {i \in 1..Len(vc) : vc[i] = Marker}

\* C11: finalizing a ReserveVec in which a reserved slot was never filled
\* panics, and no sequence is returned from it.
C11_UnfilledMarkerPanics ==
    (out.done /\ Unfilled(vec) # {}) => out.panicked

\* ---------------------------------------------------------------- claims: Span

\* Both spans are on one input and neither is reversed.
WellFormedPair ==
    /\ spanA.s = spanB.s
    /\ spanA.start <= spanA.end
    /\ spanB.start <= spanB.end

\* Result r is Ok(v).
IsOk(r, v) == r.ok /\ r.v = v

\* Both spans cover the same region, and it is not empty.
SameRegion ==
    /\ spanA.start = spanB.start
    /\ spanA.end = spanB.end
    /\ spanA.start < spanA.end

\* C12 as stated: for spans A and B on one input with start <= end,
\* A.relative_location(B) = Encompasses iff B.relative_location(A) = Within,
\* also when A and B cover the same region.
C12_EncompassesIffWithin ==
    (WellFormedPair /\ loc.ab.done /\ loc.ba.done) =>
        (IsOk(loc.ab.r, "Encompasses") <=> IsOk(loc.ba.r, "Within"))

\* C12 amended: for spans A and B on one input with start <= end that do not
\* cover the same non-empty region, A.relative_location(B) = Encompasses iff
\* B.relative_location(A) = Within; when they cover the same non-empty region
\* both calls return Within.
C12_EncompassesIffWithinUnlessSame ==
    (WellFormedPair /\ loc.ab.done /\ loc.ba.done) =>
        IF SameRegion
        THEN IsOk(loc.ab.r, "Within") /\ IsOk(loc.ba.r, "Within")
        ELSE IsOk(loc.ab.r, "Encompasses") <=> IsOk(loc.ba.r, "Within")

\* A strictly encompasses B, and both calls were made.
C12_Witness ==
    /\ WellFormedPair
    /\ loc.ab.done
    /\ loc.ba.done
    /\ spanA.start < spanB.start
    /\ spanB.end < spanA.end
    /\ IsOk(loc.ab.r, "Encompasses")
    /\ IsOk(loc.ba.r, "Within")

\* Neither span is before, after, inside or around the other.
PartialOverlap(a, b) ==
    /\ ~(a.end <= b.start)
    /\ ~(a.start >= b.end)
    /\ ~(a.start >= b.start /\ a.end <= b.end)
    /\ ~(b.start >= a.start /\ b.end <= a.end)

\* C13: for spans A and B on one input with start <= end,
\* A.relative_location(B) is an error iff A and B partially overlap, and is
\* Ok with one of the four classifications for every other pair.
C13_ErrIffPartialOverlap ==
    (WellFormedPair /\ loc.ab.done) =>
        /\ ~loc.ab.r.ok <=> PartialOverlap(spanA, spanB)
        /\ loc.ab.r.ok => loc.ab.r.v \in {"Before", "After", "Within", "Encompasses"}

\* A begins before B and ends inside it: the call returned an error.
C13_Witness ==
    /\ WellFormedPair
    /\ loc.ab.done
    /\ spanA.start < spanB.start
    /\ spanB.start < spanA.end
    /\ spanA.end < spanB.end
    /\ ~loc.ab.r.ok

\* ---------------------------------------------------------------- claims: EBNF

\* The characters the grammar notation gives a meaning to.
Delimiters == {Quote, "'", ";", "|", ",", "-", "=", "(", ")", "[", "]", "{", "}"}

RECURSIVE DelimiterFree(_)
\* No terminal of r holds a delimiter.
DelimiterFree(r) ==
    /\ r.op = "Terminal" => \A i \in 1..Len(r.s) : r.s[i] \notin Delimiters
    /\ \A i \in 1..Len(r.kids) : DelimiterFree(r.kids[i])

\* The tree held is built over identifiers and delimiter-free terminals.
PlainAst ==
    CASE ast.kind = "rhs" -> DelimiterFree(ast.v)
      [] ast.kind = "production" -> DelimiterFree(ast.v.rhs)
      [] ast.kind = "grammar" ->
            \A i \in 1..Len(ast.v.rules) : DelimiterFree(ast.v.rules[i].rhs)
      [] OTHER -> FALSE

\* C14: printing then parsing is the identity: for every Rhs over identifiers
\* and delimiter-free terminals, and every Production and Grammar of such,
\* from_str(to_string()) is Ok of the tree printed.
C14_PrintThenParseIsIdentity ==
    (parsed.done /\ PlainAst) =>
        /\ parsed.from_str.ok
        /\ parsed.from_str.v = ast.v

RECURSIVE IsChain(_, _)
\* r is op(x1, op(x2, ... xn)) over identifiers, n >= 2.
IsChain(r, op) ==
    /\ r.op = op
    /\ r.kids[1].op = "Identifier"
    /\ \/ r.kids[2].op = "Identifier"
       \/ IsChain(r.kids[2], op)

RECURSIVE ChainIdents(_)
\* x1 .. xn of a chain.
ChainIdents(r) ==
    IF r.op = "Identifier" THEN <<r.s>> ELSE <<r.kids[1].s>> \o ChainIdents(r.kids[2])

RECURSIVE ChainText(_, _)
\* The text "x1 sep x2 sep ... sep xn".
ChainText(xs, sep) ==
    IF Len(xs) = 1 THEN xs[1]
    ELSE xs[1] \o <<" ", sep, " ">> \o ChainText(Tail(xs), sep)

\* The operator character of a binary constructor.
SepOf(op) ==
    CASE op = "Alternation" -> "|"
      [] op = "Concatenation" -> ","
      [] op = "Exception" -> "-"

\* C15: for identifiers x1 .. xn, n >= 2, the text "x1 | x2 | ... | xn" parses
\* to Alternation(x1, Alternation(x2, ... xn)) with nothing left unconsumed,
\* and the text with "," to the right-nested Concatenation.
C15_ChainsNestRight ==
    \A op \in {"Alternation", "Concatenation"} :
        (ast.kind = "rhs" /\ IsChain(ast.v, op) /\ parsed.done) =>
            /\ text.s = ChainText(ChainIdents(ast.v), SepOf(op))
            /\ parsed.parse.ok
            /\ parsed.parse.rem = <<>>
            /\ parsed.parse.v = ast.v

\* "a | b_1 | a" was parsed to Alternation(a, Alternation(b_1, a)).
C15_Witness ==
    /\ ast.kind = "rhs"
    /\ text.done
    /\ text.s = <<"a", " ", "|", " ", "b", "_", "1", " ", "|", " ", "a">>
    /\ parsed.done
    /\ parsed.parse.ok
    /\ parsed.parse.rem = <<>>
    /\ parsed.parse.v =
        RhsAlternation(RhsIdentifier(<<"a">>),
                       RhsAlternation(RhsIdentifier(<<"b", "_", "1">>), RhsIdentifier(<<"a">>)))

\* Text t holds no double quote.
NoQuote(t) == \A i \in 1..Len(t) : t[i] # Quote

\* C20: a terminal between double quotes may hold any character but the double
\* quote: `x = "t" ;` parses to Production(x, Terminal(t)), and "t" as an
\* operand of a concatenation or an alternation is parsed as that operand.
C20_TerminalHoldsAnyCharacter ==
    parsed.done =>
        /\ (/\ ast.kind = "production"
            /\ ast.v.rhs.op = "Terminal"
            /\ NoQuote(ast.v.rhs.s)) =>
                (parsed.from_str.ok /\ parsed.from_str.v = ast.v)
        /\ (/\ ast.kind = "rhs"
            /\ ast.v.op \in {"Concatenation", "Alternation"}
            /\ \A i \in 1..2 : ast.v.kids[i].op \in {"Identifier", "Terminal"}
            /\ \E i \in 1..2 : ast.v.kids[i].op = "Terminal"
            /\ \A i \in 1..2 : NoQuote(ast.v.kids[i].s)) =>
                (parsed.from_str.ok /\ parsed.from_str.v = ast.v)

\* ---------------------------------------------------------------- claims: generator

\* C17: for every production whose rhs is Terminal(t), the rule function
\* generated for it calls match_str with the raw text t, without quote
\* characters (so that the parser of `a = "b" ;` accepts "b").
C17_TerminalMatchesRawText ==
    (generated.done /\ generated.outcome = "Ok") =>
        \A i \in 1..Len(source.rules) :
            source.rules[i].rhs.op = "Terminal" =>
                /\ generated.rule_fns[i].name = source.rules[i].lhs
                /\ generated.rule_fns[i].body =
                    [op |-> "match_str", s |-> source.rules[i].rhs.s, kids |-> <<>>]

RECURSIVE HasException(_)
\* r holds an Exception node, at any depth.
HasException(r) ==
    \/ r.op = "Exception"
    \/ \E i \in 1..Len(r.kids) : HasException(r.kids[i])

\* C18: generating from a grammar that holds an Exception node at any depth of
\* any production's rhs yields no parser, whatever the other productions are.
C18_ExceptionFailsGeneration ==
    (/\ generated.done
     /\ \E i \in 1..Len(source.rules) : HasException(source.rules[i].rhs)) =>
        generated.outcome = "panic"

\* The second of two productions holds an Exception below an Optional, the
\* first holds none: generation panicked.
C18_Witness ==
    /\ generated.done
    /\ Len(source.rules) = 2
    /\ ~HasException(source.rules[1].rhs)
    /\ source.rules[2].rhs.op = "Optional"
    /\ source.rules[2].rhs.kids[1].op = "Exception"
    /\ generated.outcome = "panic"

\* C19: a grammar in which two productions have the same Lhs is rejected with
\* DuplicateProduction, and nothing is emitted for it.
C19_DuplicateLhsRejected ==
    (/\ generated.done
     /\ \E i, j \in 1..Len(source.rules) :
            i # j /\ source.rules[i].lhs = source.rules[j].lhs) =>
        generated.outcome = "DuplicateProduction"

\* ---------------------------------------------------------------- claims: csv

\* The text a token covers.
TextOf(tok) == SubSeq(tok.span.s, tok.span.start + 1, tok.span.end)

\* C16: parsing "184,754\n33,22222\n" with rule csv succeeds, and the tokens
\* hold exactly two record tokens, exactly four field tokens, with the texts
\* "184", "754", "33" and "22222", and a csv token over the whole input.
C16_CsvTokens ==
    (Done /\ prog = RuleCsv /\ cursor.input = CsvInput) =>
        LET fields == TokensOfRule(tokens, "field")
        IN  /\ res = "Ok"
            /\ Len(TokensOfRule(tokens, "record")) = 2
            /\ Len(fields) = 4
            /\ {TextOf(fields[i]) : i \in 1..Len(fields)} =
                {<<"1", "8", "4">>, <<"7", "5", "4">>, <<"3", "3">>,
                 <<"2", "2", "2", "2", "2">>}
            /\ \E i \in 1..Len(tokens) :
                /\ tokens[i].rule = "csv"
                /\ tokens[i].span.start = 0
                /\ tokens[i].span.end = Len(CsvInput)

\* ---------------------------------------------------------------- claims: grammar texts

\* A grammar text written from pieces has been parsed.
TextParsed == parsed.done /\ ast.kind = "grammar" /\ "pieces" \in DOMAIN ast

\* Some piece of the text is a production with a structural mismatch.
HasBadPiece == \E i \in 1..Len(ast.pieces) : ast.pieces[i] \in BadPieces

\* C21: Grammar::from_str returns ParseError whenever the text holds a
\* production with a structural mismatch (no '=', no ';', an lhs that is no
\* identifier, an rhs that is no rhs), wherever in the text it stands.
C21_MismatchIsParseError ==
    (TextParsed /\ HasBadPiece) => ~parsed.from_str.ok

\* The parser can read no production at the start of the text.
ReadsNoProduction == ~grammar_rule(text.s).ok

HasGoodPiece == \E i \in 1..Len(ast.pieces) : ast.pieces[i] \in GoodPieces

\* The Production a well-formed piece spells.
ProductionOfPiece(piece) ==
    IF piece = <<"a", "=", "b", ";">>
    THEN Production(<<"a">>, RhsIdentifier(<<"b">>))
    ELSE Production(<<"c">>, RhsTerminal(<<"x">>))

\* The productions of the text, in order.
ProductionsOfPieces(ps) ==
    LET good == SelectSeq(ps, LAMBDA piece : piece \in GoodPieces)
    IN  [i \in 1..Len(good) |-> ProductionOfPiece(good[i])]

\* C23: whatever number of comments and whitespace runs stand before the
\* first production, between two productions and after the last one, the
\* grammar parser returns all the productions of the text, in order, with an
\* empty remainder.
C23_CommentsAndWhitespaceDiscarded ==
    (TextParsed /\ ~HasBadPiece /\ HasGoodPiece) =>
        parsed.parse = IOk(<<>>, Grammar(ProductionsOfPieces(ast.pieces)))

\* ---------------------------------------------------------------- claims: loading the grammar

\* How many grammar-source attributes the type carries.
SourceCount ==
    Cardinality({i \in 1..Len(derive_input.attrs) :
        /\ derive_input.attrs[i].meta = "NameValue"
        /\ derive_input.attrs[i].path \in {"ebnf_file", "ebnf_inline"}})

\* Loading got as far as parsing the grammar text.
ReachedParsing == loaded.r.outcome \in {"Ok", "panic"}

\* C24: loading the grammar returns MissingGrammarSource when the type carries
\* no grammar-source attribute, MultipleGrammarSources when it carries more
\* than one, and reaches grammar parsing only when it carries exactly one.
C24_SourceCountValidated ==
    loaded.done =>
        /\ SourceCount = 0 => loaded.r = DeriveErr("MissingGrammarSource")
        /\ SourceCount > 1 => loaded.r = DeriveErr("MultipleGrammarSources")
        /\ ReachedParsing => SourceCount = 1

\* A type with an inline and a file source was refused.
C24_Witness ==
    /\ loaded.done
    /\ \E i, j \in 1..Len(derive_input.attrs) :
        /\ IsSource(derive_input.attrs[i]) /\ derive_input.attrs[i].path = "ebnf_inline"
        /\ IsSource(derive_input.attrs[j]) /\ derive_input.attrs[j].path = "ebnf_file"
    /\ loaded.r = DeriveErr("MultipleGrammarSources")

\* ---------------------------------------------------------------- claims: or_else

\* The calls in progress that the last step started: the frames above the
\* ones that were below the frame of the step.
Started == SubSeq(stack, last.depth, Len(stack))

\* C25: in left.or_else(right), right runs only when left failed, and it
\* starts from the cursor and the tokens left returned at its failure; when
\* left succeeded, right does not run and or_else returns left's state.
C25_OrElseRunsRightFromFailedState ==
    last.op = "or_else" =>
        /\ cursor = last.cursor
        /\ tokens = last.tokens
        /\ last.res = "Err" =>
            /\ res = "none"
            /\ Started = Frames(last.frame.e.kids[2])
        /\ last.res = "Ok" =>
            /\ res = "Ok"
            /\ Started = <<>>

\* The left operand of the parser's or_else failed after it had consumed
\* input, and the right operand is about to start from there.
C25_Witness ==
    /\ last.op = "or_else"
    /\ last.res = "Err"
    /\ prog.op = "alt"
    /\ last.depth = 1
    /\ stack = Frames(prog.kids[2])
    /\ cursor.idx > 0

\* ---------------------------------------------------------------- claims: nested brackets

RECURSIVE BracketKinds(_)
\* The bracket kinds of r from the outermost inwards, down to the first node
\* that is no bracket.
BracketKinds(r) ==
    IF r.op \in UnaryOps THEN <<r.op>> \o BracketKinds(r.kids[1]) ELSE <<>>

RECURSIVE BracketBody(_)
\* The first node of r that is no bracket.
BracketBody(r) == IF r.op \in UnaryOps THEN BracketBody(r.kids[1]) ELSE r

\* An Rhs of one bracket pair nested inside another, around an identifier or
\* a terminal, was printed and parsed.
NestedBracketsParsed ==
    /\ parsed.done
    /\ ast.kind = "rhs"
    /\ "v" \in DOMAIN ast
    /\ Len(BracketKinds(ast.v)) >= 2
    /\ BracketBody(ast.v) \in PlainLeaves

\* Some bracket kind stands inside a pair of the same kind.
SameKindNested ==
    LET kinds == BracketKinds(ast.v)
    IN  \E i, j \in 1..Len(kinds) : i < j /\ kinds[i] = kinds[j]

C27_BeforeIffAfter ==
    (WellFormedPair /\ loc.ab.done /\ loc.ba.done) =>
        (IsOk(loc.ab.r, "Before") <=> IsOk(loc.ba.r, "After"))

\* ---------------------------------------------------------------- claims: production

\* The text of a production between its "=" and its ";".
RhsText(t) == take_until(<<";">>, tag(<<"=">>, take_until(<<"=">>, t).rem).rem).v

\* What the rhs parser leaves unparsed of that text.
Unparsed(t) == rhs(RhsText(t)).rem

\* C28: whenever production(input) succeeds, the Rhs it returns accounts for
\* all the text between the "=" and the ";": the rhs parser leaves nothing
\* but whitespace of it unparsed.
C28_ProductionParsesWholeRhs ==
    (parsed.done /\ ast.kind = "production" /\ parsed.parse.ok) =>
        \A i \in 1..Len(Unparsed(text.s)) :
            Unparsed(text.s)[i] \in {" ", "\t", "\r", "\n"}

\* ---------------------------------------------------------------- claims: the cursor

\* The tokenize calls in progress.
OpenTokenize == {i \in 1..Len(stack) : stack[i].e.op = "tok" /\ stack[i].phase = "wait"}

AllKept(toks) == \A i \in 1..Len(toks) : \E j \in 1..Len(tokens) : tokens[j] = toks[i]

====
